---- MODULE Spec2Model ----
(***************************************************************************)
(* Verification model of minipilot's incremental indexing engine:          *)
(* CodebaseIndexer (indexer.py) orchestrating FileChunker (chunker.py),    *)
(* FileChangeDetector (merkle_tree.py), LocalCache (cache.py, the SQLite   *)
(* metadata store) and VectorDatabase (vector_db.py, the vector store).    *)
(*                                                                         *)
(* Every call on a store is one atomic step (each LocalCache method is one *)
(* SQLite transaction), so full_index, incremental_sync and process_file   *)
(* are sequences of steps between which the process can stop or a call     *)
(* can raise.                                                              *)
(*                                                                         *)
(* A file's content is its token stream; tokens are numbers, token 1       *)
(* decodes to a newline character and every other token to a text without  *)
(* newline.  SHA-256 is modelled as an injective tagging of the hashed     *)
(* value.                                                                  *)
(***************************************************************************)
EXTENDS Integers, Sequences, FiniteSets, TLC

(***************************************************************************)
(* Bounds of the model                                                     *)
(***************************************************************************)
\* FileChunker.chunk_size and chunk_overlap, scaled down from 1000 / 200
ChunkSize == 2
ChunkOverlap == 1
\* how many times a behaviour may raise inside process_file or stop the process
MaxFaults == 1
\* the longest token stream and the largest chunk_size of the calls of chunk_text on
\* its own
MaxTokens == 4
MaxChunkSize == 3

\* relative paths of the tree, and every path of the model in sorted order
Paths == {"a.py", "b.py"}
PathSeq == <<"a.py", "b.py", "c.py">>
\* absolute root paths an Indexer can be constructed with
Roots == {"/r1", "/r2"}
\* file contents: the empty file, a three-token file that starts with a newline, a
\* three-token file on a single line
Contents == {<<>>, <<1, 0, 0>>, <<0, 0, 2>>}
\* what the tree holds for a file the walker lists and load_file_content cannot read
\* (it returns None): no token stream
Unreadable == <<0 - 1>>

VARIABLES
    tree,           \* the source tree: relative path -> content, for the files the walker includes
    root,           \* CodebaseIndexer.root_path (resolved)
    files,          \* table files: file_path -> content_hash
    chunks,         \* table chunks: set of rows, chunk_id unique
    embeddings,     \* table embeddings: set of rows, chunk_id unique
    merkle,         \* table merkle_state: <<>> or <<row 1>>
    metaTable,      \* whether table indexer_metadata exists
    indexedRoot,    \* indexer_metadata row 1: <<>> or <<root_path>>
    vec,            \* the Chroma collection: set of entries, chunk_id unique
    mem,            \* FileChangeDetector.file_hashes of the live Indexer object
    op,             \* the running operation: "none", "full", "inc", "clear"
    pc,             \* the position inside the running operation
    changes,        \* incremental_sync: the result of detect_changes
    delTodo,        \* incremental_sync: deleted paths still to remove
    todo,           \* the files still to process (all_files / files_to_process)
    cur,            \* <<>> or <<relative path being handled>>
    embIdx,         \* process_file: how many embeddings of the file are stored
    processed_count,
    skipped_count,
    error_count,
    failed,         \* history: the paths whose process_file raised in this run
    committed,      \* history: this run has written the Merkle state
    pre,            \* history: the files table and the chunk count when this run began (and
                    \*          the whole metadata store when the run repeats a full_index)
    restartOf,      \* history of the unchanged tree: "pending" after a sync was stopped,
                    \*          "running" while the next incremental_sync runs, "full" after
                    \*          a full_index returned without error, "full_again" while the
                    \*          next full_index runs
    faults,         \* history: number of injected failures so far
    probe           \* a call of a pure function on its own: its inputs and what it returned

vars == <<tree, root, files, chunks, embeddings, merkle, metaTable, indexedRoot, vec, mem,
          op, pc, changes, delTodo, todo, cur, embIdx,
          processed_count, skipped_count, error_count,
          failed, committed, pre, restartOf, faults, probe>>

cacheVars == <<files, chunks, embeddings, merkle, metaTable, indexedRoot>>
countVars == <<processed_count, skipped_count, error_count>>

EmptyMap == [p \in {} |-> <<>>]
NoChanges == [added |-> {}, modified |-> {}, deleted |-> {}]
NoPre == [files |-> EmptyMap, chunks |-> 0, stores |-> <<>>]
NoProbe == [fn |-> "none"]

Min(a, b) == IF a < b THEN a ELSE b

(***************************************************************************)
(* chunker.py                                                              *)
(***************************************************************************)
\* hashlib.sha256(content.encode()).hexdigest()
Sha256(content) == [sha256 |-> content]

\* FileChunker.get_file_hash: the empty string (<<>>) when the content is None
GetFileHash(content) == IF content = Unreadable THEN <<>> ELSE Sha256(content)

\* the number of newline characters a token decodes to
Newlines(token) == IF token = 1 THEN 1 ELSE 0

\* text.count('\n') of the decoding of a token sequence
RECURSIVE CountNewlines(_)
CountNewlines(tokens) ==
    IF tokens = <<>> THEN 0 ELSE Newlines(Head(tokens)) + CountNewlines(Tail(tokens))

\* the body of the while loop of FileChunker.chunk_text, for a chunker constructed with
\* chunk_size and chunk_overlap
RECURSIVE ChunkLoop(_, _, _, _, _, _, _)
ChunkLoop(tokens, file_path, start, chunk_id, acc, chunk_size, chunk_overlap) ==
    IF ~(start < Len(tokens)) THEN acc
    ELSE LET end == Min(start + chunk_size, Len(tokens))
             chunk_tokens == SubSeq(tokens, start + 1, end)
             lines_before == IF start > 0 THEN CountNewlines(SubSeq(tokens, 1, start)) ELSE 0
             lines_in_chunk == CountNewlines(chunk_tokens)
             chunk_data == [chunk_id |-> <<file_path, lines_before, lines_before + lines_in_chunk>>,
                            file_path |-> file_path,
                            content |-> chunk_tokens,
                            chunk_index |-> chunk_id,
                            token_count |-> Len(chunk_tokens)]
         IN IF end >= Len(tokens) THEN Append(acc, chunk_data)
            ELSE ChunkLoop(tokens, file_path, end - chunk_overlap, chunk_id + 1,
                           Append(acc, chunk_data), chunk_size, chunk_overlap)

\* the token windows [start, end) the while loop of chunk_text goes through on a stream
\* of n tokens, with a step that leaves a gap after each window
RECURSIVE ChunkWindowsGap(_, _, _, _, _)
ChunkWindowsGap(n, start, acc, chunk_size, chunk_overlap) ==
    IF ~(start < n) THEN acc
    ELSE LET end == Min(start + chunk_size, n)
         IN IF end >= n THEN Append(acc, <<start, end>>)
            ELSE ChunkWindowsGap(n, end + 1, Append(acc, <<start, end>>),
                                 chunk_size, chunk_overlap)

\* the token windows [start, end) the while loop of chunk_text goes through on a stream
\* of n tokens
RECURSIVE ChunkWindows(_, _, _, _, _)
ChunkWindows(n, start, acc, chunk_size, chunk_overlap) ==
    IF ~(start < n) THEN acc
    ELSE LET end == Min(start + chunk_size, n)
         IN IF end >= n THEN Append(acc, <<start, end>>)
            ELSE ChunkWindows(n, end - chunk_overlap, Append(acc, <<start, end>>),
                              chunk_size, chunk_overlap)

\* chunk_text of a chunker that ignores its chunk_overlap
FileChunkerChunkTextNoOverlap(chunk_size, chunk_overlap, text, file_path) ==
    ChunkLoop(text, file_path, 0, 0, <<>>, chunk_size, 0)

\* FileChunker(chunk_size, chunk_overlap).chunk_text(text, file_path)
FileChunkerChunkText(chunk_size, chunk_overlap, text, file_path) ==
    ChunkLoop(text, file_path, 0, 0, <<>>, chunk_size, chunk_overlap)

\* FileChunker.chunk_text of the Indexer's chunker
ChunkText(text, file_path) == FileChunkerChunkText(ChunkSize, ChunkOverlap, text, file_path)

(***************************************************************************)
(* merkle_tree.py                                                          *)
(***************************************************************************)
\* sorted(file_hashes.keys())
SortedPaths(S) == SelectSeq(PathSeq, LAMBDA p : p \in S)

\* the root of the tree built by build_tree_from_files: the empty string (<<>>) when
\* there is no record, else a digest of the entries "<path>:<hash>" in path-sorted order
MerkleRoot(file_hashes) ==
    LET sp == SortedPaths(DOMAIN file_hashes)
    IN IF DOMAIN file_hashes = {} THEN <<>>
       ELSE [i \in 1..Len(sp) |-> <<sp[i], file_hashes[sp[i]]>>]

\* detect_changes that does not compare the digests of the common paths
DetectChangesNoModified(old_hashes, new_hashes) ==
    [added |-> DOMAIN new_hashes \ DOMAIN old_hashes,
     modified |-> {},
     deleted |-> DOMAIN old_hashes \ DOMAIN new_hashes]

\* detect_changes that reports every prior path as deleted
DetectChangesAllDeleted(old_hashes, new_hashes) ==
    [added |-> {}, modified |-> {}, deleted |-> DOMAIN old_hashes]

\* FileChangeDetector.detect_changes
DetectChanges(old_hashes, new_hashes) ==
    LET old_files == DOMAIN old_hashes
        new_files == DOMAIN new_hashes
    IN [added |-> new_files \ old_files,
        modified |-> {p \in old_files \cap new_files : old_hashes[p] # new_hashes[p]},
        deleted |-> old_files \ new_files]

(***************************************************************************)
(* cache.py                                                                *)
(***************************************************************************)
\* store_file_metadata: INSERT OR REPLACE INTO files
StoreFileMetadata(f, file_path, content_hash) ==
    [p \in DOMAIN f \cup {file_path} |-> IF p = file_path THEN content_hash ELSE f[p]]

\* one INSERT OR REPLACE INTO chunks (chunk_id is UNIQUE)
UpsertChunk(ch, c) == {x \in ch : x.chunk_id # c.chunk_id} \cup {c}

\* store_chunks: the inserts of one transaction, in list order
RECURSIVE StoreChunks(_, _)
StoreChunks(ch, cs) ==
    IF cs = <<>> THEN ch ELSE StoreChunks(UpsertChunk(ch, Head(cs)), Tail(cs))

\* store_embedding: INSERT OR REPLACE INTO embeddings (chunk_id is UNIQUE)
StoreEmbedding(em, chunk_id, vector) ==
    {e \in em : e.chunk_id # chunk_id} \cup {[chunk_id |-> chunk_id, embedding_vector |-> vector]}

\* delete_file_data without its DELETE FROM embeddings
DeleteFileDataEmbeddingsKept(em, ch, file_path) == em

\* delete_file_data with a DELETE FROM embeddings that is not restricted to the path
DeleteFileDataEmbeddingsAll(em, ch, file_path) == {}

\* delete_file_data, table embeddings: the embeddings of the chunks of the path
DeleteFileDataEmbeddings(em, ch, file_path) ==
    LET chunk_ids == {c.chunk_id : c \in {x \in ch : x.file_path = file_path}}
    IN {e \in em : e.chunk_id \notin chunk_ids}

\* delete_file_data without its DELETE FROM chunks
DeleteFileDataChunksKept(ch, file_path) == ch

\* delete_file_data, table chunks
DeleteFileDataChunks(ch, file_path) == {c \in ch : c.file_path # file_path}

\* delete_file_data with a DELETE FROM files that is not restricted to the path
DeleteFileDataFilesAll(f, file_path) == EmptyMap

\* delete_file_data, table files
DeleteFileDataFiles(f, file_path) == [p \in DOMAIN f \ {file_path} |-> f[p]]

\* cleanup_orphaned_data, first statement: embeddings whose chunk is gone
CleanupEmbeddings(em, ch) == {e \in em : e.chunk_id \in {c.chunk_id : c \in ch}}

\* cleanup_orphaned_data, second statement: chunks whose file is gone
CleanupChunks(ch, f) == {c \in ch : c.file_path \in DOMAIN f}

\* store_merkle_state: INSERT OR REPLACE of row 1
StoreMerkleState(root_hash, tree_data) == <<[root_hash |-> root_hash, tree_data |-> tree_data]>>

(***************************************************************************)
(* embeddings.py, vector_db.py                                             *)
(***************************************************************************)
\* LocalEmbeddings.embed_code_chunk: a function of the chunk text and the file path
EmbedCodeChunk(code, file_path) == [text |-> code, of |-> file_path]

\* the entry process_file builds for the vector store from a chunk
VectorChunk(c) == [chunk_id |-> c.chunk_id, content |-> c.content,
                   file_path |-> c.file_path, chunk_index |-> c.chunk_index]

\* delete_chunks_by_file: collection.delete(where file_path = path)
DeleteChunksByFile(v, file_path) == {e \in v : e.file_path # file_path}

\* add_chunks when every add of an existing id raises and falls back to update
RECURSIVE AddChunksLastWins(_, _)
AddChunksLastWins(v, cs) ==
    IF cs = <<>> THEN v
    ELSE AddChunksLastWins({e \in v : e.chunk_id # Head(cs).chunk_id} \cup {VectorChunk(Head(cs))},
                           Tail(cs))

\* add_chunks when the add of an existing id is ignored by the collection
RECURSIVE AddChunksFirstWins(_, _)
AddChunksFirstWins(v, cs) ==
    IF cs = <<>> THEN v
    ELSE AddChunksFirstWins(IF \E e \in v : e.chunk_id = Head(cs).chunk_id
                            THEN v ELSE v \cup {VectorChunk(Head(cs))},
                            Tail(cs))

\* add_chunks: the contents the collection can end with
AddChunks(v, cs) == {AddChunksLastWins(v, cs), AddChunksFirstWins(v, cs)}

(***************************************************************************)
(* indexer.py                                                              *)
(***************************************************************************)
\* CodebaseIndexer.get_all_file_hashes
CurrentFileHashes ==
    [p \in {q \in DOMAIN tree : GetFileHash(tree[q]) # <<>>} |-> GetFileHash(tree[p])]

\* the chunks process_file computes for the file it is handling
CurChunks == ChunkText(tree[cur[1]], cur[1])

TypeOK ==
    /\ DOMAIN tree \subseteq Paths
    /\ \A p \in DOMAIN tree : tree[p] \in Contents \cup {Unreadable}
    /\ root \in Roots
    /\ DOMAIN files \subseteq Paths
    /\ Len(merkle) <= 1
    /\ metaTable \in BOOLEAN
    /\ Len(indexedRoot) <= 1
    /\ op \in {"none", "full", "inc", "clear", "clear_all", "process_file", "process_file_force"}
    /\ todo \subseteq Paths
    /\ delTodo \subseteq Paths
    /\ Len(cur) <= 1
    /\ faults \in 0..MaxFaults

\* an empty tree, an empty cache directory, no operation under way
EmptyStores ==
    /\ tree = EmptyMap
    /\ files = EmptyMap
    /\ chunks = {}
    /\ embeddings = {}
    /\ merkle = <<>>
    /\ metaTable = FALSE
    /\ indexedRoot = <<>>
    /\ vec = {}
    /\ mem = EmptyMap
    /\ op = "none"
    /\ pc = "idle"
    /\ changes = NoChanges
    /\ delTodo = {}
    /\ todo = {}
    /\ cur = <<>>
    /\ embIdx = 0
    /\ processed_count = 0
    /\ skipped_count = 0
    /\ error_count = 0
    /\ failed = {}
    /\ committed = FALSE
    /\ pre = NoPre
    /\ restartOf = "none"
    /\ faults = 0

Init ==
    /\ root \in Roots
    /\ EmptyStores
    /\ probe = NoProbe

\* what a run finds: the files table and get_cache_stats()['chunks']
Snapshot == [files |-> files, chunks |-> Cardinality(chunks), stores |-> <<>>]

\* the same with the rows of the metadata store and the persisted Merkle root
StoresSnapshot ==
    [files |-> files, chunks |-> Cardinality(chunks),
     stores |-> <<[chunks |-> chunks, embeddings |-> embeddings,
                   root_hash |-> IF merkle = <<>> THEN <<>> ELSE <<merkle[1].root_hash>>]>>]

\* the locals of an operation once it has returned or the process has stopped
ResetRun ==
    /\ op' = "none"
    /\ pc' = "idle"
    /\ changes' = NoChanges
    /\ delTodo' = {}
    /\ todo' = {}
    /\ cur' = <<>>
    /\ embIdx' = 0
    /\ processed_count' = 0
    /\ skipped_count' = 0
    /\ error_count' = 0
    /\ failed' = {}
    /\ committed' = FALSE
    /\ pre' = NoPre

runVars == <<op, pc, changes, delTodo, todo, cur, embIdx, processed_count, skipped_count,
             error_count, failed, committed, pre>>

(***************************************************************************)
(* The environment: the tree is edited and the tool is started anew        *)
(* between two operations.                                                 *)
(***************************************************************************)
\* a file is created or its content replaced
WriteFile(p, c) ==
    /\ pc = "idle"
    /\ IF p \in DOMAIN tree THEN tree[p] # c ELSE TRUE
    /\ tree' = [q \in DOMAIN tree \cup {p} |-> IF q = p THEN c ELSE tree[q]]
    /\ restartOf' = "none"
    /\ UNCHANGED <<probe, root, cacheVars, vec, mem, runVars, faults>>

\* a file is removed from the tree (or becomes excluded by the walker's rules)
RemoveFile(p) ==
    /\ pc = "idle"
    /\ p \in DOMAIN tree
    /\ tree' = [q \in DOMAIN tree \ {p} |-> tree[q]]
    /\ restartOf' = "none"
    /\ UNCHANGED <<probe, root, cacheVars, vec, mem, runVars, faults>>

\* the tool is started on another root: CodebaseIndexer.__init__(root_path)
NewIndexer(r) ==
    /\ pc = "idle"
    /\ r # root
    /\ root' = r
    /\ mem' = EmptyMap
    /\ restartOf' = "none"
    /\ UNCHANGED <<probe, tree, cacheVars, vec, runVars, faults>>

(***************************************************************************)
(* process_file(file_path, force=True)                                     *)
(***************************************************************************)
\* process_file that never compares the stored digest, as if force were always true
DigestUnchangedIgnored(p) == FALSE

\* lines 69-74: force is false (a call of process_file on its own, op "process_file")
\* and the stored digest of the path equals the current one
DigestUnchanged(p) ==
    IF op = "process_file" /\ p \in DOMAIN files THEN files[p] = GetFileHash(tree[p]) ELSE FALSE

\* lines 78-85: the content is None, or it has no token and chunk_text returns []:
\* process_file returns False; full_index counts the file as skipped,
\* incremental_sync, which ignores the result, as processed
ProcessFileNoChunks(p) ==
    /\ pc = "loop"
    /\ p \in todo
    /\ ~DigestUnchanged(p)
    /\ IF tree[p] = Unreadable THEN TRUE ELSE ChunkText(tree[p], p) = <<>>
    /\ todo' = todo \ {p}
    /\ IF op = "full"
       THEN skipped_count' = skipped_count + 1 /\ UNCHANGED processed_count
       ELSE processed_count' = processed_count + 1 /\ UNCHANGED skipped_count
    /\ UNCHANGED <<probe, tree, root, cacheVars, vec, mem, op, pc, changes, delTodo, cur, embIdx,
                   error_count, failed, committed, pre, restartOf, faults>>

\* lines 78-87: the content is loaded and chunked
ProcessFileBegin(p) ==
    /\ pc = "loop"
    /\ p \in todo
    /\ ~DigestUnchanged(p)
    /\ tree[p] # Unreadable
    /\ ChunkText(tree[p], p) # <<>>
    /\ todo' = todo \ {p}
    /\ cur' = <<p>>
    /\ pc' = "pf_delete_cache"
    /\ UNCHANGED <<probe, tree, root, cacheVars, vec, mem, op, changes, delTodo, embIdx, countVars,
                   failed, committed, pre, restartOf, faults>>

\* line 90: self.cache.delete_file_data(relative_path)
PfDeleteFileData ==
    /\ pc = "pf_delete_cache"
    /\ embeddings' = DeleteFileDataEmbeddings(embeddings, chunks, cur[1])
    /\ chunks' = DeleteFileDataChunks(chunks, cur[1])
    /\ files' = DeleteFileDataFiles(files, cur[1])
    /\ pc' = "pf_delete_vec"
    /\ UNCHANGED <<probe, tree, root, merkle, metaTable, indexedRoot, vec, mem, op, changes, delTodo,
                   todo, cur, embIdx, countVars, failed, committed, pre, restartOf, faults>>

\* line 91: self.vector_db.delete_chunks_by_file(relative_path)
PfDeleteChunksByFile ==
    /\ pc = "pf_delete_vec"
    /\ vec' = DeleteChunksByFile(vec, cur[1])
    /\ pc' = "pf_store_file"
    /\ UNCHANGED <<probe, tree, root, cacheVars, mem, op, changes, delTodo, todo, cur, embIdx,
                   countVars, failed, committed, pre, restartOf, faults>>

\* lines 93-101: self.cache.store_file_metadata(relative_path, sha256(content), ...)
PfStoreFileMetadata ==
    /\ pc = "pf_store_file"
    /\ files' = StoreFileMetadata(files, cur[1], Sha256(tree[cur[1]]))
    /\ pc' = "pf_store_chunks"
    /\ UNCHANGED <<probe, tree, root, chunks, embeddings, merkle, metaTable, indexedRoot, vec, mem, op,
                   changes, delTodo, todo, cur, embIdx, countVars, failed, committed, pre,
                   restartOf, faults>>

\* line 110: self.cache.store_chunks(chunks)
PfStoreChunks ==
    /\ pc = "pf_store_chunks"
    /\ chunks' = StoreChunks(chunks, CurChunks)
    /\ pc' = "pf_embed"
    /\ embIdx' = 0
    /\ UNCHANGED <<probe, tree, root, files, embeddings, merkle, metaTable, indexedRoot, vec, mem, op,
                   changes, delTodo, todo, cur, countVars, failed, committed, pre, restartOf,
                   faults>>

\* lines 120-125: one turn of the loop, self.cache.store_embedding(chunk['id'], ...)
PfStoreEmbedding ==
    /\ pc = "pf_embed"
    /\ embIdx < Len(CurChunks)
    /\ LET c == CurChunks[embIdx + 1]
       IN embeddings' = StoreEmbedding(embeddings, c.chunk_id,
                                       EmbedCodeChunk(c.content, c.file_path))
    /\ embIdx' = embIdx + 1
    /\ UNCHANGED <<probe, tree, root, files, chunks, merkle, metaTable, indexedRoot, vec, mem, op, pc,
                   changes, delTodo, todo, cur, countVars, failed, committed, pre, restartOf,
                   faults>>

\* lines 139-141: self.vector_db.add_chunks(vector_chunks); return True
PfAddChunks ==
    /\ pc = "pf_embed"
    /\ embIdx = Len(CurChunks)
    /\ vec' \in AddChunks(vec, CurChunks)
    /\ processed_count' = processed_count + 1
    /\ pc' = "loop"
    /\ cur' = <<>>
    /\ embIdx' = 0
    /\ UNCHANGED <<probe, tree, root, cacheVars, mem, op, changes, delTodo, todo, skipped_count,
                   error_count, failed, committed, pre, restartOf, faults>>

\* a call inside process_file raises (a store write, the embedder); the except clause
\* of the loop in full_index (176-178) or incremental_sync (256-258) counts the error
\* and the loop goes on with the next file
PfRaise ==
    /\ pc \in {"pf_delete_cache", "pf_store_file", "pf_store_chunks", "pf_embed"}
    /\ faults < MaxFaults
    /\ faults' = faults + 1
    /\ error_count' = error_count + 1
    /\ failed' = failed \cup {cur[1]}
    /\ pc' = "loop"
    /\ cur' = <<>>
    /\ embIdx' = 0
    /\ UNCHANGED <<probe, tree, root, cacheVars, vec, mem, op, changes, delTodo, todo, processed_count,
                   skipped_count, committed, pre, restartOf>>

(***************************************************************************)
(* full_index                                                              *)
(***************************************************************************)
\* lines 146-160: store_indexed_root_path (which creates table indexer_metadata),
\* then the walk that collects all_files
FullIndexBegin ==
    /\ pc = "idle"
    /\ op' = "full"
    /\ pc' = "loop"
    /\ pre' = IF restartOf = "full" THEN StoresSnapshot ELSE Snapshot
    /\ metaTable' = TRUE
    /\ indexedRoot' = <<root>>
    /\ todo' = DOMAIN tree
    /\ restartOf' = IF restartOf = "full" THEN "full_again" ELSE "none"
    /\ UNCHANGED <<probe, tree, root, files, chunks, embeddings, merkle, vec, mem, changes, delTodo,
                   cur, embIdx, countVars, failed, committed, faults>>

\* lines 180-185: the Merkle state is rebuilt from the tree and persisted
FullStoreMerkle ==
    /\ op = "full"
    /\ pc = "loop"
    /\ todo = {}
    /\ mem' = CurrentFileHashes
    /\ merkle' = StoreMerkleState(MerkleRoot(CurrentFileHashes), CurrentFileHashes)
    /\ committed' = TRUE
    /\ pc' = "cleanup"
    /\ UNCHANGED <<probe, tree, root, files, chunks, embeddings, metaTable, indexedRoot, vec, op,
                   changes, delTodo, todo, cur, embIdx, countVars, failed, pre, restartOf,
                   faults>>

\* line 187 (full_index) and line 260 (incremental_sync): cleanup_orphaned_data, whose
\* first DELETE sees the chunks table as it is before the second
CleanupOrphanedData ==
    /\ pc = "cleanup"
    /\ embeddings' = CleanupEmbeddings(embeddings, chunks)
    /\ chunks' = CleanupChunks(chunks, files)
    /\ pc' = "done"
    /\ UNCHANGED <<probe, tree, root, files, merkle, metaTable, indexedRoot, vec, mem, op, changes,
                   delTodo, todo, cur, embIdx, countVars, failed, committed, pre, restartOf,
                   faults>>

(***************************************************************************)
(* incremental_sync                                                        *)
(***************************************************************************)
\* what detect_changes compares the tree with: the persisted map when there is a
\* Merkle row, else whatever the detector of this Indexer object holds
PriorFileHashes == IF merkle # <<>> THEN merkle[1].tree_data ELSE mem

\* lines 210, 49-64: detect_changes, which persists the new Merkle state itself
DetectedChanges == DetectChanges(PriorFileHashes, CurrentFileHashes)

IncDetect ==
    /\ pc = "idle"
    /\ op' = "inc"
    /\ pre' = Snapshot
    /\ changes' = DetectedChanges
    /\ mem' = CurrentFileHashes
    /\ merkle' = StoreMerkleState(MerkleRoot(CurrentFileHashes), CurrentFileHashes)
    /\ committed' = TRUE
    /\ delTodo' = DetectedChanges.deleted
    \* lines 212-226: nothing changed, the early return
    /\ pc' = IF DetectedChanges.added \cup DetectedChanges.modified \cup DetectedChanges.deleted = {}
             THEN "done" ELSE "deleting"
    /\ restartOf' = IF restartOf = "pending" THEN "running" ELSE "none"
    /\ UNCHANGED <<probe, tree, root, files, chunks, embeddings, metaTable, indexedRoot, vec, todo, cur,
                   embIdx, countVars, failed, faults>>

\* line 235: self.cache.delete_file_data(relative_path) for a deleted path
IncDeleteFileData(p) ==
    /\ pc = "deleting"
    /\ p \in delTodo
    /\ cur' = <<p>>
    /\ embeddings' = DeleteFileDataEmbeddings(embeddings, chunks, p)
    /\ chunks' = DeleteFileDataChunks(chunks, p)
    /\ files' = DeleteFileDataFiles(files, p)
    /\ pc' = "deleting_vec"
    /\ UNCHANGED <<probe, tree, root, merkle, metaTable, indexedRoot, vec, mem, op, changes, delTodo,
                   todo, embIdx, countVars, failed, committed, pre, restartOf, faults>>

\* line 236: self.vector_db.delete_chunks_by_file(relative_path)
IncDeleteChunksByFile ==
    /\ pc = "deleting_vec"
    /\ vec' = DeleteChunksByFile(vec, cur[1])
    /\ delTodo' = delTodo \ {cur[1]}
    /\ cur' = <<>>
    /\ pc' = "deleting"
    /\ UNCHANGED <<probe, tree, root, cacheVars, mem, op, changes, todo, embIdx, countVars, failed,
                   committed, pre, restartOf, faults>>

\* lines 238-245: files_to_process, the added and modified paths that exist
IncFilesToProcess ==
    /\ pc = "deleting"
    /\ delTodo = {}
    /\ todo' = {p \in changes.added \cup changes.modified : p \in DOMAIN tree}
    /\ pc' = "loop"
    /\ UNCHANGED <<probe, tree, root, cacheVars, vec, mem, op, changes, delTodo, cur, embIdx, countVars,
                   failed, committed, pre, restartOf, faults>>

\* lines 247-258 are over: on to cleanup_orphaned_data (line 260)
IncLoopEnd ==
    /\ op = "inc"
    /\ pc = "loop"
    /\ todo = {}
    /\ pc' = "cleanup"
    /\ UNCHANGED <<probe, tree, root, cacheVars, vec, mem, op, changes, delTodo, todo, cur, embIdx,
                   countVars, failed, committed, pre, restartOf, faults>>

(***************************************************************************)
(* clear_cache_if_path_changed                                             *)
(***************************************************************************)
\* get_indexed_root_path: row 1 of indexer_metadata; the fallback on absolute file paths
\* finds none, the files table holds relative paths
GetIndexedRootPath == IF metaTable /\ indexedRoot # <<>> THEN indexedRoot ELSE <<>>

\* lines 293-319: the indexed root differs, the cache is not empty, the user (if asked)
\* agrees: clear_all_cache
ClearAllCache ==
    /\ pc = "idle"
    /\ GetIndexedRootPath # <<>>
    /\ GetIndexedRootPath[1] # root
    /\ DOMAIN files # {}
    /\ op' = "clear"
    /\ pc' = "clear_vec"
    /\ files' = EmptyMap
    /\ chunks' = {}
    /\ embeddings' = {}
    /\ merkle' = <<>>
    /\ indexedRoot' = <<>>
    /\ restartOf' = "none"
    /\ UNCHANGED <<probe, tree, root, metaTable, vec, mem, changes, delTodo, todo, cur, embIdx,
                   countVars, failed, committed, pre, faults>>

\* line 320: self.vector_db.reset_database()
ClearResetDatabase ==
    /\ pc = "clear_vec"
    /\ vec' = {}
    /\ op' = "none"
    /\ pc' = "idle"
    /\ UNCHANGED <<probe, tree, root, cacheVars, mem, changes, delTodo, todo, cur, embIdx, countVars,
                   failed, committed, pre, restartOf, faults>>

(***************************************************************************)
(* The end of an operation                                                 *)
(***************************************************************************)
\* full_index or incremental_sync returns its stats and the command ends: every caller
\* (cmd_index, web_server.main, demo_api_run) runs one sync per Indexer object
Return ==
    /\ pc = "done"
    /\ ResetRun
    /\ mem' = EmptyMap
    /\ restartOf' = IF op = "full" /\ error_count = 0 THEN "full" ELSE "none"
    /\ UNCHANGED <<probe, tree, root, cacheVars, vec, faults>>

\* the process is stopped between two store calls; what runs next is a new Indexer
Cancel ==
    /\ pc \notin {"idle", "done"}
    /\ faults < MaxFaults
    /\ faults' = faults + 1
    /\ ResetRun
    /\ mem' = EmptyMap
    /\ restartOf' = IF op \in {"full", "inc"} THEN "pending" ELSE "none"
    /\ UNCHANGED <<probe, tree, root, cacheVars, vec>>

Next ==
    \/ \E p \in Paths, c \in Contents : WriteFile(p, c)
    \/ \E p \in Paths : RemoveFile(p)
    \/ \E r \in Roots : NewIndexer(r)
    \/ \E p \in Paths : ProcessFileNoChunks(p)
    \/ \E p \in Paths : ProcessFileBegin(p)
    \/ PfDeleteFileData
    \/ PfDeleteChunksByFile
    \/ PfStoreFileMetadata
    \/ PfStoreChunks
    \/ PfStoreEmbedding
    \/ PfAddChunks
    \/ FullIndexBegin
    \/ FullStoreMerkle
    \/ CleanupOrphanedData
    \/ IncDetect
    \/ \E p \in Paths : IncDeleteFileData(p)
    \/ IncDeleteChunksByFile
    \/ IncFilesToProcess
    \/ IncLoopEnd
    \/ ClearAllCache
    \/ ClearResetDatabase
    \/ Return

\* the operations run to their end, no call fails
Spec == Init /\ [][Next]_vars

\* the same with calls that raise inside process_file and a process that can be stopped
NextFaults ==
    \/ Next
    \/ PfRaise
    \/ Cancel

FaultSpec == Init /\ [][NextFaults]_vars

(***************************************************************************)
(* chunk_text and detect_changes on their own: the inputs are drawn by the  *)
(* initial state, the actions call the function                            *)
(***************************************************************************)
\* the token streams of at most MaxTokens tokens (text, newline)
TokenStreams == UNION {[1..n -> {0, 1}] : n \in 0..MaxTokens}

\* FileChunker.__init__(chunk_size, chunk_overlap) with chunk_overlap < chunk_size, the
\* configurations with which the loop of chunk_text advances
ChunkerConfigs ==
    {cfg \in [chunk_size : 1..MaxChunkSize, chunk_overlap : (0 - 1)..(MaxChunkSize - 1)] :
        cfg.chunk_overlap < cfg.chunk_size}

\* a chunker and the text it is given
ChunkerInputs == [cfg : ChunkerConfigs, text : TokenStreams]

ChunkerInit ==
    /\ root = "/r1"
    /\ EmptyStores
    /\ probe \in [fn : {"chunk_text"}, file_path : {"a.py"}, inputs : ChunkerInputs \X ChunkerInputs,
                   out : {<<>>}]

\* one run of chunk_text on the file: the first run on inputs[1], the second on inputs[2]
ChunkTextRun ==
    /\ probe.fn = "chunk_text"
    /\ Len(probe.out) < 2
    /\ LET in == probe.inputs[Len(probe.out) + 1]
       IN probe' = [probe EXCEPT !.out = Append(@, FileChunkerChunkText(in.cfg.chunk_size,
                                                       in.cfg.chunk_overlap, in.text,
                                                       probe.file_path))]
    /\ UNCHANGED <<tree, root, cacheVars, vec, mem, runVars, restartOf, faults>>

ChunkerSpec == ChunkerInit /\ [][ChunkTextRun]_vars

\* the paths and the path->digest maps of the calls of detect_changes on its own
DetectPaths == {"a.py", "b.py", "c.py"}
HashMaps == UNION {[S -> {GetFileHash(c) : c \in Contents}] : S \in SUBSET DetectPaths}

DetectInit ==
    /\ root = "/r1"
    /\ EmptyStores
    /\ probe \in [fn : {"detect_changes"}, file_hashes : HashMaps, new_file_hashes : HashMaps,
                   out : {<<>>}]

\* FileChangeDetector.detect_changes(new_file_hashes) on a detector holding file_hashes
DetectChangesCall ==
    /\ probe.fn = "detect_changes"
    /\ probe.out = <<>>
    /\ probe' = [probe EXCEPT !.out = <<DetectChanges(probe.file_hashes, probe.new_file_hashes)>>]
    /\ UNCHANGED <<tree, root, cacheVars, vec, mem, runVars, restartOf, faults>>

DetectSpec == DetectInit /\ [][DetectChangesCall]_vars

(***************************************************************************)
(* Properties                                                              *)
(***************************************************************************)
\* the chunk rows, embedding rows and vector entries of a path
FileChunks(p) == {c \in chunks : c.file_path = p}
FileEmbeddings(p) == {e \in embeddings : e.chunk_id[1] = p}
FileVectors(p) == {e \in vec : e.file_path = p}

\* neither store holds anything for the path
NoRecords(p) ==
    /\ p \notin DOMAIN files
    /\ FileChunks(p) = {}
    /\ FileEmbeddings(p) = {}
    /\ FileVectors(p) = {}

\* the chunks chunk_text produces for the file as it is in the tree
TreeChunks(p) == LET cs == ChunkText(tree[p], p) IN {cs[i] : i \in 1..Len(cs)}

\* the persisted Merkle map records the path with the digest of its current content
MerkleRecords(p) ==
    /\ merkle # <<>>
    /\ p \in DOMAIN tree
    /\ p \in DOMAIN merkle[1].tree_data
    /\ merkle[1].tree_data[p] = GetFileHash(tree[p])

\* a step that writes the records of one file: the calls of process_file on the stores
\* and the removal of a deleted path
PerFileWrite ==
    \/ PfDeleteFileData
    \/ PfDeleteChunksByFile
    \/ PfStoreFileMetadata
    \/ PfStoreChunks
    \/ PfStoreEmbedding
    \/ PfAddChunks
    \/ \E p \in Paths : IncDeleteFileData(p)
    \/ IncDeleteChunksByFile

\* C1: in every run of full_index and of incremental_sync the new Merkle state is
\* written strictly after every per-file write of the run: no per-file write is made
\* by a run that has already written the Merkle state.
C1_MerkleAfterPerFileWrites == [][PerFileWrite => ~committed]_vars

\* C2: a sync is restartable: when a sync was stopped and the tree has not changed, the
\* next incremental_sync, once it completes, leaves every included file that has chunks
\* indexed with its current content (file row with the current digest, the chunk rows
\* of the current content).
C2_Restartable ==
    (op = "inc" /\ pc = "done" /\ restartOf = "running" /\ failed = {})
        => \A p \in DOMAIN tree :
              TreeChunks(p) # {} =>
                 /\ p \in DOMAIN files
                 /\ files[p] = GetFileHash(tree[p])
                 /\ FileChunks(p) = StoreChunks({}, ChunkText(tree[p], p))

\* C3: when process_file fails for a file, the persisted Merkle state is not updated to
\* the new map: once the sync is over, the persisted map does not record the failed
\* file with its current digest, so that the next incremental_sync reattempts it.
C3_FailureKeepsMerkle ==
    pc = "done" => \A p \in failed : ~MerkleRecords(p)

\* C4: after a full_index or incremental_sync that returns with no errors, the Merkle
\* root computed from the files table (get_all_file_hashes of the cache) equals the
\* persisted Merkle root.
C4_RootMatchesFileTable ==
    (pc = "done" /\ error_count = 0)
        => /\ merkle # <<>>
           /\ MerkleRoot(files) = merkle[1].root_hash

\* C5: in every reachable state of the metadata store, also the states left by an
\* exception or a stop in the middle of process_file, every embedding row's chunk_id
\* is the chunk_id of a chunk row.
C5_EmbeddingHasChunk ==
    \A e \in embeddings : \E c \in chunks : c.chunk_id = e.chunk_id

\* C5 witness: process_file has raised between two store_embedding calls: a chunk of
\* the failed file has its embedding, another has none.
C5_Witness ==
    /\ pc = "loop"
    /\ \E p \in failed :
          /\ \E e \in embeddings : e.chunk_id[1] = p
          /\ \E c \in FileChunks(p) : \A e \in embeddings : e.chunk_id # c.chunk_id

\* C6: in every reachable state of the metadata store, also the states left by an
\* exception or a stop in the middle of process_file, every chunk row's file_path is
\* the file_path of a file row.
C6_ChunkHasFile ==
    \A c \in chunks : c.file_path \in DOMAIN files

\* C6 witness: process_file has raised after store_chunks: the failed file has its
\* file row and chunk rows but not all its embeddings.
C6_Witness ==
    /\ pc = "loop"
    /\ \E p \in failed :
          /\ p \in DOMAIN files
          /\ FileChunks(p) # {}
          /\ FileEmbeddings(p) = {}

\* C7: after the content of an indexed file (a path with a file row) is replaced by
\* different content (also by empty content) and incremental_sync completes, the
\* records held for the path in both stores are exactly those of the chunks of the new
\* content, so no prior chunk stays.
C7_ReplaceOnModify ==
    (op = "inc" /\ pc = "done" /\ error_count = 0)
        => \A p \in changes.modified \cap DOMAIN pre.files :
              /\ FileChunks(p) = StoreChunks({}, ChunkText(tree[p], p))
              /\ FileVectors(p) \in AddChunks({}, ChunkText(tree[p], p))

\* C8: after an indexed file (a path with a file row) is removed from the tree and
\* incremental_sync completes, neither store holds a record of the path, and when no
\* included file remains the persisted Merkle root is the empty string.
C8_RemovedFileGone ==
    (op = "inc" /\ pc = "done")
        => /\ \A p \in DOMAIN pre.files \ DOMAIN tree : NoRecords(p)
           /\ DOMAIN tree = {} => (merkle # <<>> /\ merkle[1].root_hash = <<>>)

\* C9: after a sync of either kind completes, the files table holds no path that the
\* walker does not currently include.
C9_NoFileOutsideTree ==
    (pc = "done" /\ error_count = 0) => DOMAIN files \subseteq DOMAIN tree

\* C10: after an indexed file p is renamed to q with identical content (the only change)
\* and incremental_sync completes, p has no record in either store, q has a file row
\* with the digest p had, and the number of chunk rows is what it was.
C10_RenameKeepsIndex ==
    (op = "inc" /\ pc = "done" /\ error_count = 0)
        => \A p \in changes.deleted, q \in changes.added :
              ( /\ changes.deleted = {p}
                /\ changes.added = {q}
                /\ changes.modified = {}
                /\ p \in DOMAIN pre.files
                /\ pre.files[p] = GetFileHash(tree[q]) )
              => /\ NoRecords(p)
                 /\ q \in DOMAIN files
                 /\ files[q] = pre.files[p]
                 /\ Cardinality(chunks) = pre.chunks

\* what the two stores hold of a chunk in common: its id, its text and its file
ChunkKey(c) == [chunk_id |-> c.chunk_id, content |-> c.content, file_path |-> c.file_path]

\* C11: after full_index or incremental_sync returns with error_files = 0, the vector
\* store and the chunks table hold the same chunk ids, each with the same content and
\* file_path in both.
C11_StoresConsistent ==
    (pc = "done" /\ error_count = 0)
        => {ChunkKey(e) : e \in vec} = {ChunkKey(c) : c \in chunks}

\* C12: a full_index that follows a full_index on the unchanged tree leaves the file,
\* chunk and embedding rows and the persisted Merkle root as the first run left them.
C12_FullIndexIdempotent ==
    (op = "full" /\ pc = "done" /\ restartOf = "full_again" /\ error_count = 0)
        => /\ files = pre.files
           /\ chunks = pre.stores[1].chunks
           /\ embeddings = pre.stores[1].embeddings
           /\ merkle # <<>>
           /\ <<merkle[1].root_hash>> = pre.stores[1].root_hash

\* C12 witness: the second full_index has completed on a tree of two files, both of
\* which it has processed again.
C12_Witness ==
    /\ op = "full" /\ pc = "done" /\ restartOf = "full_again"
    /\ processed_count = 2
    /\ DOMAIN files = Paths
    /\ pre.stores # <<>>
    /\ Cardinality(embeddings) >= 2

\* the persisted Merkle map records exactly the included files with their digests
TreeUnchanged == merkle # <<>> /\ merkle[1].tree_data = CurrentFileHashes

\* C13: incremental_sync on a tree whose included files and digests equal the persisted
\* Merkle map returns right after detect_changes: its only write is the Merkle row,
\* with the root and the map it had, and no step writes the file, chunk or embedding
\* tables or the vector store.
C13_UnchangedTreeNoWrites ==
    [][(IncDetect /\ TreeUnchanged)
          => /\ pc' = "done"
             /\ UNCHANGED <<files, chunks, embeddings, vec>>
             /\ merkle'[1].root_hash = merkle[1].root_hash
             /\ merkle'[1].tree_data = merkle[1].tree_data]_vars

\* C13 witness: incremental_sync has returned early on an indexed, unchanged tree.
C13_Witness ==
    /\ op = "inc" /\ pc = "done"
    /\ changes = NoChanges
    /\ TreeUnchanged
    /\ DOMAIN tree # {}
    /\ chunks # {}

\* C14: after full_index or incremental_sync on a tree with no included file, whatever
\* the stores held before, the persisted Merkle root is the empty string and neither
\* store holds a chunk.
C14_EmptyTreeEmptyIndex ==
    (pc = "done" /\ op \in {"full", "inc"} /\ DOMAIN tree = {})
        => /\ merkle # <<>>
           /\ merkle[1].root_hash = <<>>
           /\ chunks = {}
           /\ vec = {}

\* the condition of clear_cache_if_path_changed: an indexed root is recorded, it is not
\* the root of this Indexer, and the files table is not empty
PathChanged ==
    IF GetIndexedRootPath = <<>> THEN FALSE
    ELSE GetIndexedRootPath[1] # root /\ DOMAIN files # {}

\* C15: full_index and incremental_sync never start while the recorded indexed root
\* differs from the current root and the metadata store is not empty: the stores are
\* cleared first, or the run is refused.
C15_NoIndexOverOtherRoot ==
    [][(FullIndexBegin \/ IncDetect) => ~PathChanged]_vars

\* C16: for every prior map and current map, detect_changes returns added = the current
\* paths that are not prior paths, deleted = the prior paths that are not current
\* paths, modified = the paths of both maps whose digests differ.
C16_DetectChangesSets ==
    (probe.fn = "detect_changes" /\ probe.out # <<>>)
        => LET prior == probe.file_hashes
               current == probe.new_file_hashes
           IN /\ \A p \in DetectPaths :
                    p \in probe.out[1].added <=> (p \in DOMAIN current /\ p \notin DOMAIN prior)
              /\ \A p \in DetectPaths :
                    p \in probe.out[1].deleted <=> (p \in DOMAIN prior /\ p \notin DOMAIN current)
              /\ \A p \in DetectPaths :
                    p \in probe.out[1].modified <=>
                        IF p \in DOMAIN prior /\ p \in DOMAIN current
                        THEN prior[p] # current[p] ELSE FALSE
              /\ probe.out[1].added \cup probe.out[1].deleted \cup probe.out[1].modified
                    \subseteq DetectPaths

\* C16 witness: detect_changes has returned an added, a modified and a deleted path.
C16_Witness ==
    /\ probe.fn = "detect_changes"
    /\ probe.out # <<>>
    /\ probe.out[1].added # {}
    /\ probe.out[1].modified # {}
    /\ probe.out[1].deleted # {}

\* the runs of chunk_text made so far
Runs == IF probe.fn = "chunk_text" THEN 1..Len(probe.out) ELSE {}

\* chunk k of out is the window [k*(S-O), min(k*(S-O)+S, n)) of the stream: full but for
\* the last, which ends at n; the stream of no token gives no chunk
SlidingWindows(text, S, O, out) ==
    LET n == Len(text)
        m == Len(out)
    IN IF n = 0 THEN out = <<>>
       ELSE /\ m >= 1
            /\ \A k \in 0..(m - 1) :
                  LET from == k * (S - O)
                      to == Min(from + S, n)
                  IN /\ from < to
                     /\ out[k + 1].content = SubSeq(text, from + 1, to)
                     /\ out[k + 1].token_count = to - from
                     /\ out[k + 1].chunk_index = k
                     /\ (k < m - 1) => (out[k + 1].token_count = S /\ to < n)
                     /\ (k = m - 1) => to = n

\* C17: for chunk_size S and chunk_overlap O with 0 <= O < S, chunk_text produces chunk
\* k over the tokens [k*(S-O), min(k*(S-O)+S, n)): every chunk but the last has S
\* tokens, the last ends at n, none is empty, and n = 0 gives no chunk.
C17_ChunkWindows ==
    \A i \in Runs :
        LET in == probe.inputs[i]
        IN in.cfg.chunk_overlap >= 0
              => SlidingWindows(in.text, in.cfg.chunk_size, in.cfg.chunk_overlap, probe.out[i])

\* C17 witness: a run with a positive overlap whose last chunk is shorter than
\* chunk_size.
C17_Witness ==
    \E i \in Runs :
        /\ probe.inputs[i].cfg.chunk_overlap > 0
        /\ Len(probe.out[i]) >= 2
        /\ probe.out[i][Len(probe.out[i])].token_count < probe.inputs[i].cfg.chunk_size

\* the chunks of out are the texts of the windows the loop goes through, and the
\* windows together hold every token position of the stream
WindowsCover(text, S, O, out) ==
    LET n == Len(text)
        w == ChunkWindows(n, 0, <<>>, S, O)
    IN /\ Len(w) = Len(out)
       /\ \A k \in 1..Len(w) : out[k].content = SubSeq(text, w[k][1] + 1, w[k][2])
       /\ UNION {w[k][1]..(w[k][2] - 1) : k \in 1..Len(w)} = 0..(n - 1)

\* C18, as amended: for every token stream and every configuration with
\* 0 <= chunk_overlap < chunk_size, the token ranges of the chunks chunk_text returns
\* cover the whole stream [0, n).
C18_ChunksCoverStream ==
    \A i \in Runs :
        LET in == probe.inputs[i]
        IN in.cfg.chunk_overlap >= 0
              => WindowsCover(in.text, in.cfg.chunk_size, in.cfg.chunk_overlap, probe.out[i])

\* C18, as stated: the same for every configuration with chunk_overlap < chunk_size.
C18_ChunksCoverStreamAnyOverlap ==
    \A i \in Runs :
        LET in == probe.inputs[i]
        IN WindowsCover(in.text, in.cfg.chunk_size, in.cfg.chunk_overlap, probe.out[i])

\* C18 witness: a run with a positive overlap that returned three chunks or more.
C18_Witness ==
    \E i \in Runs :
        /\ probe.inputs[i].cfg.chunk_overlap > 0
        /\ Len(probe.out[i]) >= 3

\* C19: once process_file has stored the chunks of a file, the chunk_index values of the
\* chunk rows of the file are 0..m-1, m the number of chunks the chunker produced: no
\* chunk is lost or overwritten by another chunk of the file.
C19_ChunkIndexContiguous ==
    pc = "pf_embed"
        => {c.chunk_index : c \in FileChunks(cur[1])} = 0..(Len(CurChunks) - 1)

\* the sequence of chunk ids of a run of chunk_text
ChunkIds(out) == [k \in 1..Len(out) |-> out[k].chunk_id]

\* C20: for a fixed relative path, two runs of chunk_text produce the same sequence of
\* chunk ids if and only if the content and the chunker parameters are the same in
\* both runs.
C20_IdsStableIff ==
    (probe.fn = "chunk_text" /\ Len(probe.out) = 2)
        => (ChunkIds(probe.out[1]) = ChunkIds(probe.out[2])
               <=> probe.inputs[1] = probe.inputs[2])

(***************************************************************************)
(* query.py and vector_db.py: the query side                               *)
(***************************************************************************)
\* the score 1.0; scores and distances are counted in thousandths
One == 1000

\* the largest max_results of the calls of search on their own
MaxResults == 2

Range(s) == {s[i] : i \in 1..Len(s)}

\* the loop of _apply_keyword_boosting over the keywords; counts[i] is
\* content_lower.count(keyword) of the i-th keyword of the query
RECURSIVE BoostFactor(_, _)
BoostFactor(counts, boost_factor) ==
    IF counts = <<>> THEN boost_factor
    ELSE BoostFactor(Tail(counts),
                     IF Head(counts) > 0 THEN boost_factor + Min(100 * Head(counts), 300)
                     ELSE boost_factor)

\* _apply_keyword_boosting without the cap of the boost factor at 0.5
ApplyKeywordBoostingNoCap(base_score, counts) ==
    IF counts = <<>> THEN base_score
    ELSE LET boost_factor == BoostFactor(counts, 0)
             boosted_score == base_score + (boost_factor * (One - base_score)) \div One
         IN Min(boosted_score, One)

\* QueryEngine._apply_keyword_boosting
ApplyKeywordBoosting(base_score, counts) ==
    IF counts = <<>> THEN base_score
    ELSE LET boost_factor == Min(BoostFactor(counts, 0), 500)
             boosted_score == base_score + (boost_factor * (One - base_score)) \div One
         IN Min(boosted_score, One)

\* VectorDatabase.search: collection lists the entries by ascending distance to the
\* query, as collection.query returns them; file_filter is <<>> for None and <<F>> for
\* the list F, and a list that is empty is as false as None
VectorSearch(collection, n_results, file_filter) ==
    LET where_clause == IF file_filter = <<>> THEN <<>>
                        ELSE IF file_filter[1] = <<>> THEN <<>> ELSE file_filter
        matching == IF where_clause = <<>> THEN collection
                    ELSE SelectSeq(collection,
                                   LAMBDA e : e.file_path \in Range(where_clause[1]))
    IN SubSeq(matching, 1, Min(n_results, Len(matching)))

\* the loop of search over the hits: score, boost, drop what is under the threshold
RECURSIVE SearchLoop(_, _, _)
SearchLoop(search_results, similarity_threshold, results) ==
    IF search_results = <<>> THEN results
    ELSE LET e == Head(search_results)
             similarity_score == IF One - e.distance > 0 THEN One - e.distance ELSE 0
             boosted_score == ApplyKeywordBoosting(similarity_score, e.counts)
         IN SearchLoop(Tail(search_results), similarity_threshold,
                       IF boosted_score < similarity_threshold THEN results
                       ELSE Append(results, [chunk_id |-> e.chunk_id,
                                             file_path |-> e.file_path,
                                             similarity_score |-> boosted_score]))

\* results.sort(key=similarity_score, reverse=True): descending, and equal scores keep
\* their order
RECURSIVE SortResults(_, _)
SortResults(results, sorted) ==
    IF results = <<>> THEN sorted
    ELSE LET r == Head(results)
             k == Cardinality({i \in 1..Len(sorted) :
                                 sorted[i].similarity_score >= r.similarity_score})
         IN SortResults(Tail(results),
                        SubSeq(sorted, 1, k) \o <<r>> \o SubSeq(sorted, k + 1, Len(sorted)))

\* what a call of search that raises leaves to its caller
Raised == [raised |-> TRUE, results |-> <<>>, total_results |-> 0]

\* QueryEngine.search; max_results is <<>> for None and <<K>> for the number K.  The
\* embedder raises when its model is not loaded and collection.query raises when the
\* vector store fails; search catches neither
Search(self, file_filter, max_results) ==
    LET k == IF max_results = <<>> THEN self.max_results
             ELSE IF max_results[1] = 0 THEN self.max_results ELSE max_results[1]
    IN IF self.embeddings = "not_loaded" THEN Raised
       ELSE IF self.vector_db.query = "fails" THEN Raised
       ELSE LET search_results == VectorSearch(self.vector_db.collection, k * 2, file_filter)
                results == SortResults(SearchLoop(search_results, self.similarity_threshold,
                                                  <<>>), <<>>)
                top == SubSeq(results, 1, Min(k, Len(results)))
            IN [raised |-> FALSE, results |-> top, total_results |-> Len(top)]

\* the entries the collections of the calls of search on their own are drawn from, by
\* ascending distance: the second overtakes the first once boosted, the last two fall
\* under a threshold of 0.2
EntryPool ==
    <<[chunk_id |-> 1, file_path |-> "a.py", distance |-> 400, counts |-> <<0>>],
      [chunk_id |-> 2, file_path |-> "b.py", distance |-> 500, counts |-> <<3>>],
      [chunk_id |-> 3, file_path |-> "a.py", distance |-> 900, counts |-> <<0>>],
      [chunk_id |-> 4, file_path |-> "b.py", distance |-> 1200, counts |-> <<1>>]>>
Collections ==
    {SelectSeq(EntryPool, LAMBDA e : e.chunk_id \in S) : S \in SUBSET (1..Len(EntryPool))}
FileFilters == {<<>>} \cup {<<F>> : F \in {<<>>, <<"a.py">>, <<"b.py">>, <<"a.py", "b.py">>}}
QueryEngines ==
    [max_results : 1..MaxResults, similarity_threshold : {0, 200},
     embeddings : {"loaded", "not_loaded"},
     vector_db : [collection : Collections, query : {"ok", "fails"}]]

SearchInit ==
    probe \in [fn : {"search"}, self : QueryEngines, file_filter : FileFilters,
               max_results : {<<>>} \cup {<<k>> : k \in 0..MaxResults}, out : {<<>>}]

\* one call of QueryEngine.search
SearchCall ==
    /\ probe.fn = "search"
    /\ probe.out = <<>>
    /\ probe' = [probe EXCEPT !.out = <<Search(probe.self, probe.file_filter,
                                                probe.max_results)>>]
    /\ UNCHANGED <<tree, root, cacheVars, vec, mem, runVars, restartOf, faults>>

\* the longest context the calls of get_context_for_completion on their own ask for
MaxContextLength == 8

\* chunk_context of a result: the f-string opens and closes with a newline; the header
\* line and the fences between them are left out, the content stands in full
ChunkContext(content) == <<"\n">> \o content \o <<"\n">>

\* "\n".join(context_parts)
RECURSIVE Join(_)
Join(context_parts) ==
    IF context_parts = <<>> THEN <<>>
    ELSE IF Len(context_parts) = 1 THEN context_parts[1]
    ELSE context_parts[1] \o <<"\n">> \o Join(Tail(context_parts))

\* the loop of get_context_for_completion with continue in the place of break: a block
\* that does not fit is passed over and the later ones are tried
RECURSIVE ContextLoopSkipping(_, _, _, _)
ContextLoopSkipping(results, max_context_length, context_parts, current_length) ==
    IF results = <<>> THEN context_parts
    ELSE LET chunk_context == ChunkContext(Head(results))
         IN IF current_length + Len(chunk_context) > max_context_length
            THEN ContextLoopSkipping(Tail(results), max_context_length, context_parts,
                                     current_length)
            ELSE ContextLoopSkipping(Tail(results), max_context_length,
                                     Append(context_parts, chunk_context),
                                     current_length + Len(chunk_context))

\* the loop of get_context_for_completion over the results; it stops at the first block
\* that does not fit
RECURSIVE ContextLoop(_, _, _, _)
ContextLoop(results, max_context_length, context_parts, current_length) ==
    IF results = <<>> THEN context_parts
    ELSE LET chunk_context == ChunkContext(Head(results))
         IN IF current_length + Len(chunk_context) > max_context_length THEN context_parts
            ELSE ContextLoop(Tail(results), max_context_length,
                             Append(context_parts, chunk_context),
                             current_length + Len(chunk_context))

\* QueryEngine.get_context_for_completion on the results its search returned (the
\* content of each)
GetContextForCompletion(results, max_context_length) ==
    LET context_parts == ContextLoop(results, max_context_length, <<>>, 0)
        full_context == Join(context_parts)
    IN [context |-> full_context, context_length |-> Len(full_context),
        chunks_used |-> Len(context_parts), total_chunks_found |-> Len(results)]

\* the contents of the results and the result lists of those calls
ResultContents == {<<>>, <<"c">>, <<"c", "c">>}
ResultLists == UNION {[1..n -> ResultContents] : n \in 0..3}

ContextInit ==
    probe \in [fn : {"get_context_for_completion"}, results : ResultLists,
               max_context_length : 0..MaxContextLength, out : {<<>>}]

\* one call of QueryEngine.get_context_for_completion
ContextCall ==
    /\ probe.fn = "get_context_for_completion"
    /\ probe.out = <<>>
    /\ probe' = [probe EXCEPT !.out = <<GetContextForCompletion(probe.results,
                                                                 probe.max_context_length)>>]
    /\ UNCHANGED <<tree, root, cacheVars, vec, mem, runVars, restartOf, faults>>

\* the most keywords of a query and the most occurrences of one keyword in a chunk of
\* the calls of _apply_keyword_boosting on their own
MaxKeywords == 3
MaxCount == 4

\* base similarities in [0, 1] and the occurrence counts of the keywords in the content
BaseScores == {0, 250, 500, 990, One}
KeywordCounts == UNION {[1..n -> 0..MaxCount] : n \in 0..MaxKeywords}

BoostInit ==
    probe \in [fn : {"_apply_keyword_boosting"}, base_score : BaseScores,
               counts : KeywordCounts, out : {<<>>}]

\* one call of QueryEngine._apply_keyword_boosting
BoostCall ==
    /\ probe.fn = "_apply_keyword_boosting"
    /\ probe.out = <<>>
    /\ probe' = [probe EXCEPT !.out = <<ApplyKeywordBoosting(probe.base_score, probe.counts)>>]
    /\ UNCHANGED <<tree, root, cacheVars, vec, mem, runVars, restartOf, faults>>

QueryInit ==
    /\ root = "/r1"
    /\ EmptyStores
    /\ (SearchInit \/ ContextInit \/ BoostInit)

QueryNext ==
    \/ SearchCall
    \/ ContextCall
    \/ BoostCall

QuerySpec == QueryInit /\ [][QueryNext]_vars

\* a call of search that returned
Searched == probe.fn = "search" /\ probe.out # <<>>

\* C21: whenever search is given a list of paths as its file filter, of any length
\* and the empty list included, every result it returns has its file_path in the list
C21_ResultsWithinFilter ==
    (Searched /\ probe.file_filter # <<>>) =>
        (~probe.out[1].raised =>
            \A r \in Range(probe.out[1].results) : r.file_path \in Range(probe.file_filter[1]))

\* the boosted similarity search gives a hit
BoostedScore(e) ==
    ApplyKeywordBoosting(IF One - e.distance > 0 THEN One - e.distance ELSE 0, e.counts)

\* the hits among the first n the vector store retrieves that reach the threshold
QualifyingHits(n) ==
    LET retrieved == VectorSearch(probe.self.vector_db.collection, n, probe.file_filter)
    IN {e \in Range(retrieved) : BoostedScore(e) >= probe.self.similarity_threshold}

\* results are K of the best qualifying hits among the 2K retrieved, best first
TopOfRetrieved(results, K) ==
    LET hits == QualifyingHits(2 * K)
        ids == {r.chunk_id : r \in Range(results)}
    IN /\ Len(results) <= K
       /\ Cardinality(ids) = Len(results)
       /\ \A r \in Range(results) :
              \E e \in hits : /\ e.chunk_id = r.chunk_id
                              /\ e.file_path = r.file_path
                              /\ BoostedScore(e) = r.similarity_score
       /\ \A i \in 1..Len(results), j \in 1..Len(results) :
              i < j => results[i].similarity_score >= results[j].similarity_score
       /\ \A e \in hits :
              e.chunk_id \notin ids =>
                  /\ Len(results) = K
                  /\ \A r \in Range(results) : r.similarity_score >= BoostedScore(e)

\* C22: a call of search with max_results = K, K >= 0, returns the hits among the 2K
\* retrieved from the vector store whose boosted similarity reaches
\* similarity_threshold, sorted by descending boosted similarity and truncated to at
\* most K entries, and total_results is the number of results returned
C22_TopKOfRetrieved ==
    (Searched /\ probe.max_results # <<>>) =>
        (~probe.out[1].raised =>
            /\ TopOfRetrieved(probe.out[1].results, probe.max_results[1])
            /\ probe.out[1].total_results = Len(probe.out[1].results))

\* C23: the context string get_context_for_completion returns is at most
\* max_context_length characters long, and context_length is the length of that string
C23_ContextWithinLimit ==
    (probe.fn = "get_context_for_completion" /\ probe.out # <<>>) =>
        /\ Len(probe.out[1].context) <= probe.max_context_length
        /\ probe.out[1].context_length = Len(probe.out[1].context)

\* the sum over the keywords of min(0.1 * count, 0.3)
RECURSIVE SumOfBoosts(_)
SumOfBoosts(counts) ==
    IF counts = <<>> THEN 0 ELSE Min(100 * Head(counts), 300) + SumOfBoosts(Tail(counts))

\* C24: for a base similarity in [0, 1] _apply_keyword_boosting returns v with
\* base <= v <= 1 and v = base + b * (1 - base), where b is the sum over the keywords
\* of min(0.1 * count, 0.3) capped at 0.5; v is the base when there is no keyword
C24_BoostFormula ==
    (probe.fn = "_apply_keyword_boosting" /\ probe.out # <<>>) =>
        LET base == probe.base_score
            v == probe.out[1]
            b == Min(SumOfBoosts(probe.counts), 500)
        IN /\ base <= v
           /\ v <= One
           /\ v * One = base * One + b * (One - base)
           /\ probe.counts = <<>> => v = base

\* a call with two keywords found three times each, so that the cap cuts the boost
\* factor, on a base strictly inside (0, 1)
C24_Witness ==
    /\ probe.fn = "_apply_keyword_boosting"
    /\ probe.out # <<>>
    /\ probe.counts = <<3, 3>>
    /\ probe.base_score = 500
    /\ probe.out[1] = 750

(***************************************************************************)
(* Failures outside process_file                                           *)
(***************************************************************************)
\* a store call of a sync that no try block surrounds raises: delete_file_data for a
\* deleted path (incremental_sync, line 235), store_merkle_state (full_index, lines
\* 182-185), cleanup_orphaned_data (lines 187 and 260).  The statement that failed is
\* rolled back with its transaction, and the exception leaves the sync
SyncRaise ==
    /\ \/ pc = "deleting" /\ delTodo # {}
       \/ op = "full" /\ pc = "loop" /\ todo = {}
       \/ pc = "cleanup"
    /\ faults < MaxFaults
    /\ faults' = faults + 1
    /\ pc' = "raised"
    /\ UNCHANGED <<probe, tree, root, cacheVars, vec, mem, op, changes, delTodo, todo, cur, embIdx,
                   countVars, failed, committed, pre, restartOf>>

\* the exception reaches the caller of the Indexer and the command ends without stats
Unwind ==
    /\ pc = "raised"
    /\ ResetRun
    /\ mem' = EmptyMap
    /\ restartOf' = "none"
    /\ UNCHANGED <<probe, tree, root, cacheVars, vec, faults>>

\* LocalCache.clear_all_cache called on the store as it is: five DELETEs in one
\* transaction.  Table indexer_metadata exists only once store_indexed_root_path has
\* run (init_database does not create it); without it the fifth DELETE raises
\* sqlite3.OperationalError and the connection rolls the other four back
ClearAllCacheCall ==
    /\ pc = "idle"
    /\ op' = "clear_all"
    /\ IF metaTable
       THEN /\ files' = EmptyMap
            /\ chunks' = {}
            /\ embeddings' = {}
            /\ merkle' = <<>>
            /\ indexedRoot' = <<>>
            /\ pc' = "done"
       ELSE /\ UNCHANGED <<files, chunks, embeddings, merkle, indexedRoot>>
            /\ pc' = "raised"
    /\ restartOf' = "none"
    /\ UNCHANGED <<probe, tree, root, metaTable, vec, mem, changes, delTodo, todo, cur, embIdx,
                   countVars, failed, committed, pre, faults>>

\* the operations with store calls that can fail outside process_file
RaiseNext ==
    \/ Next
    \/ SyncRaise
    \/ ClearAllCacheCall
    \/ Unwind

RaiseSpec == Init /\ [][RaiseNext]_vars

\* C25: no failure during a sync raises out of full_index or incremental_sync; a
\* failure in any step is caught and reported in the returned stats
C25_NoRaiseOutOfSync == ~(op \in {"full", "inc"} /\ pc = "raised")

(***************************************************************************)
(* Files that cannot be read                                               *)
(***************************************************************************)
\* a file of the tree becomes unreadable (permissions, bytes that are not UTF-8, or it
\* is gone by the time it is opened) while the walker still lists it
ReadFails(p) ==
    /\ pc = "idle"
    /\ p \in DOMAIN tree
    /\ tree[p] # Unreadable
    /\ tree' = [tree EXCEPT ![p] = Unreadable]
    /\ restartOf' = "none"
    /\ UNCHANGED <<probe, root, cacheVars, vec, mem, runVars, faults>>

\* the operations over trees with files that cannot be read
ReadNext ==
    \/ Next
    \/ \E p \in Paths : ReadFails(p)

ReadSpec == Init /\ [][ReadNext]_vars

\* the files of the tree that cannot be read
UnreadableFiles == {p \in DOMAIN tree : tree[p] = Unreadable}

\* C26: a sync skips each file the walker lists that cannot be read, adds one to
\* error_files of the returned stats for it, and goes on with the other files
C26_UnreadableCountedAsError ==
    (op = "full" /\ pc = "done") =>
        /\ error_count = Cardinality(UnreadableFiles)
        /\ \A p \in DOMAIN tree \ UnreadableFiles : TreeChunks(p) # {} => p \in DOMAIN files

\* the embedder is unavailable or the query of the vector store fails
QueryFailure ==
    \/ probe.self.embeddings = "not_loaded"
    \/ probe.self.vector_db.query = "fails"

\* C27: when the embedder or the query of the vector store fails, search returns a
\* response with an empty result list and raises no exception
C27_FailureGivesEmptyResults ==
    (Searched /\ QueryFailure) =>
        /\ ~probe.out[1].raised
        /\ probe.out[1].results = <<>>

(***************************************************************************)
(* cache.py: cleanup_orphaned_data on any contents of the metadata store   *)
(***************************************************************************)
\* LocalCache.cleanup_orphaned_data: one transaction of two DELETEs, the first of
\* which reads the chunks table before the second has run
CleanupOrphanedRows(f, ch, em) ==
    [files |-> f, chunks |-> CleanupChunks(ch, f), embeddings |-> CleanupEmbeddings(em, ch)]

\* the rows the tables of those calls are drawn from: two chunks of a.py and one of
\* b.py, an embedding per chunk id
ChunkRows ==
    {[chunk_id |-> <<"a.py", 0, 1>>, file_path |-> "a.py"],
     [chunk_id |-> <<"a.py", 1, 2>>, file_path |-> "a.py"],
     [chunk_id |-> <<"b.py", 0, 1>>, file_path |-> "b.py"]}
EmbeddingRows ==
    {[chunk_id |-> c.chunk_id, embedding_vector |-> EmbedCodeChunk(<<0>>, c.file_path)] :
        c \in ChunkRows}
FileTables == UNION {[S -> {GetFileHash(<<0>>)}] : S \in SUBSET Paths}

CacheInit ==
    /\ root = "/r1"
    /\ EmptyStores
    /\ probe \in [fn : {"cleanup_orphaned_data"}, files : FileTables,
                  chunks : SUBSET ChunkRows, embeddings : SUBSET EmbeddingRows,
                  out : {<<>>}]

\* one call of LocalCache.cleanup_orphaned_data
CleanupOrphanedDataCall ==
    /\ probe.fn = "cleanup_orphaned_data"
    /\ probe.out = <<>>
    /\ probe' = [probe EXCEPT !.out = <<CleanupOrphanedRows(probe.files, probe.chunks,
                                                             probe.embeddings)>>]
    /\ UNCHANGED <<tree, root, cacheVars, vec, mem, runVars, restartOf, faults>>

CacheSpec == CacheInit /\ [][CleanupOrphanedDataCall]_vars

\* the chunk rows with a file record and the embedding rows with such a chunk row
LiveChunks(f, ch) == {c \in ch : c.file_path \in DOMAIN f}
LiveEmbeddings(f, ch, em) == {e \in em : e.chunk_id \in {c.chunk_id : c \in LiveChunks(f, ch)}}

\* C28: after one call of cleanup_orphaned_data on any contents of the metadata store
\* no embedding row has a chunk_id without chunk row and no chunk row has a file_path
\* without file record; the file records and the chunks and embeddings that are not
\* orphans are unchanged
C28_CleanupLeavesNoOrphan ==
    (probe.fn = "cleanup_orphaned_data" /\ probe.out # <<>>) =>
        LET out == probe.out[1]
        IN /\ \A e \in out.embeddings : e.chunk_id \in {c.chunk_id : c \in out.chunks}
           /\ \A c \in out.chunks : c.file_path \in DOMAIN out.files
           /\ out.files = probe.files
           /\ LiveChunks(probe.files, probe.chunks) \subseteq out.chunks
           /\ LiveEmbeddings(probe.files, probe.chunks, probe.embeddings) \subseteq out.embeddings

\* C29: in every reachable state of the metadata store, one populated by
\* incremental_sync alone included, clear_all_cache completes and leaves the tables
\* files, chunks, embeddings, merkle_state and indexer_metadata empty
C29_ClearAllEmptiesTables ==
    (op = "clear_all" /\ pc \in {"done", "raised"}) =>
        /\ pc = "done"
        /\ files = EmptyMap
        /\ chunks = {}
        /\ embeddings = {}
        /\ merkle = <<>>
        /\ indexedRoot = <<>>

\* a step that is one call of LocalCache.delete_file_data(p): from process_file (line
\* 90) or for a deleted path in incremental_sync (line 235)
DeleteFileDataCalled(p) ==
    \/ PfDeleteFileData /\ cur = <<p>>
    \/ IncDeleteFileData(p)

\* the embedding rows of the chunk rows of a path
EmbeddingsOfChunks(p) == {e \in embeddings : e.chunk_id \in {c.chunk_id : c \in FileChunks(p)}}

\* C30: delete_file_data(path) removes in one transaction the file record of the path,
\* every chunk whose file_path is the path and every embedding of those chunks, and
\* leaves the file, chunk and embedding records of every other path and the Merkle
\* state as they were
C30_DeleteFileDataFrame ==
    [][\A p \in Paths :
          DeleteFileDataCalled(p) =>
              /\ files' = [q \in DOMAIN files \ {p} |-> files[q]]
              /\ chunks' = chunks \ FileChunks(p)
              /\ embeddings' = embeddings \ EmbeddingsOfChunks(p)
              /\ merkle' = merkle]_vars

\* incremental_sync has just deleted the data of the modified a.py, which had a file
\* record and chunks, while b.py keeps its file record, chunks and embeddings
C30_Witness ==
    /\ op = "inc"
    /\ pc = "pf_delete_vec"
    /\ cur = <<"a.py">>
    /\ "a.py" \in DOMAIN pre.files
    /\ pre.chunks > Cardinality(chunks)
    /\ "a.py" \notin DOMAIN files
    /\ FileChunks("a.py") = {}
    /\ FileEmbeddings("a.py") = {}
    /\ "b.py" \in DOMAIN files
    /\ FileChunks("b.py") # {}
    /\ FileEmbeddings("b.py") # {}
    /\ merkle # <<>>

(***************************************************************************)
(* An Indexer object that outlives its sync                                *)
(***************************************************************************)
\* full_index or incremental_sync returns and the caller keeps the CodebaseIndexer
\* object, whose FileChangeDetector holds the digests of its last sync, for further
\* calls
ReturnSameIndexer ==
    /\ pc = "done"
    /\ ResetRun
    /\ restartOf' = IF op = "full" /\ error_count = 0 THEN "full" ELSE "none"
    /\ UNCHANGED <<probe, tree, root, cacheVars, vec, mem, faults>>

\* the operations on Indexer objects that are used for one call or for several
LiveNext ==
    \/ Next
    \/ ReturnSameIndexer

LiveSpec == Init /\ [][LiveNext]_vars

\* the path->digest map of the persisted Merkle singleton, empty when there is no row
PersistedFileHashes == IF merkle # <<>> THEN merkle[1].tree_data ELSE EmptyMap

\* C31: the added, modified and deleted sets of incremental_sync are a function of the
\* persisted Merkle singleton and the tree, not of what the Indexer object holds in
\* memory: with no Merkle row persisted every included file is classified as added
C31_ChangesFromPersistedState ==
    [][IncDetect => changes' = DetectChanges(PersistedFileHashes, CurrentFileHashes)]_vars

(***************************************************************************)
(* Readers                                                                 *)
(***************************************************************************)
\* the steps of process_file between which another process can read the stores: each
\* store call commits on its own
InsideProcessFile ==
    pc \in {"pf_delete_cache", "pf_delete_vec", "pf_store_file", "pf_store_chunks", "pf_embed"}

\* the rows store_chunks leaves for a content of the path
ChunkRowsOf(content, p) == StoreChunks({}, ChunkText(content, p))

\* what a Query Engine that reads now finds for the path: get_chunks_by_file in the
\* metadata store, the entries of the path in the collection
ReadChunkIds(p) == {c.chunk_id : c \in FileChunks(p)}
ReadVectorIds(p) == {e.chunk_id : e \in FileVectors(p)}

\* C32: a read of the Query Engine that falls between the steps of the Indexer
\* processing again a file that is indexed and still exists finds for the path either
\* all the old chunks or all the new chunks, never none or a part of them, and never a
\* chunk in one store that the other store lacks
C32_ReadersSeeCommittedState ==
    \A p \in Paths :
        (op \in {"full", "inc"} /\ InsideProcessFile /\ cur = <<p>> /\ p \in DOMAIN pre.files) =>
            /\ \/ FileChunks(p) = ChunkRowsOf(pre.files[p].sha256, p)
               \/ FileChunks(p) = ChunkRowsOf(tree[p], p)
            /\ ReadChunkIds(p) = ReadVectorIds(p)

(***************************************************************************)
(* process_file called on its own                                          *)
(***************************************************************************)
\* process_file(root_path / p, force) is called on the Indexer between two syncs
ProcessFileCall(p, force) ==
    /\ pc = "idle"
    /\ p \in DOMAIN tree
    /\ op' = IF force THEN "process_file_force" ELSE "process_file"
    /\ pc' = "loop"
    /\ todo' = {p}
    /\ pre' = Snapshot
    /\ restartOf' = "none"
    /\ UNCHANGED <<probe, tree, root, cacheVars, vec, mem, changes, delTodo, cur, embIdx, countVars,
                   failed, committed, faults>>

\* lines 69-74: the digests are equal, return False
ProcessFileSkipped(p) ==
    /\ pc = "loop"
    /\ p \in todo
    /\ DigestUnchanged(p)
    /\ todo' = todo \ {p}
    /\ UNCHANGED <<probe, tree, root, cacheVars, vec, mem, op, pc, changes, delTodo, cur, embIdx,
                   countVars, failed, committed, pre, restartOf, faults>>

\* the call of process_file has returned
ProcessFileReturn ==
    /\ op \in {"process_file", "process_file_force"}
    /\ pc = "loop"
    /\ todo = {}
    /\ pc' = "done"
    /\ UNCHANGED <<probe, tree, root, cacheVars, vec, mem, op, changes, delTodo, todo, cur, embIdx,
                   countVars, failed, committed, pre, restartOf, faults>>

\* the syncs and the calls of process_file on its own
DirectNext ==
    \/ Next
    \/ \E p \in Paths, force \in BOOLEAN : ProcessFileCall(p, force)
    \/ \E p \in Paths : ProcessFileSkipped(p)
    \/ ProcessFileReturn

DirectSpec == Init /\ [][DirectNext]_vars

\* a step with which process_file returns False
ReturnsFalse(p) == ProcessFileSkipped(p) \/ ProcessFileNoChunks(p)

\* C33: process_file(path, force=false) on a file whose content digest equals the digest
\* of its file record returns False and writes to neither store, and every call of
\* process_file that returns False leaves both stores as they were
C33_SkippedFileNoWrite ==
    [][\A p \in Paths :
          /\ (op = "process_file" /\ pc = "loop" /\ p \in todo /\ p \in DOMAIN files
                /\ p \in DOMAIN tree /\ files[p] = GetFileHash(tree[p]))
                 => (ProcessFileSkipped(p) /\ UNCHANGED <<cacheVars, vec>>)
          /\ ReturnsFalse(p) => UNCHANGED <<cacheVars, vec>>]_vars

\* process_file(a.py, force=false) has returned False on the only file of the tree, which
\* is indexed with chunks and whose digest is the stored one
C33_Witness ==
    /\ op = "process_file"
    /\ pc = "done"
    /\ processed_count = 0
    /\ DOMAIN tree = {"a.py"}
    /\ "a.py" \in DOMAIN files
    /\ files["a.py"] = GetFileHash(tree["a.py"])
    /\ FileChunks("a.py") # {}
    /\ FileVectors("a.py") # {}

\* the sum of the block lengths of the first j results
RECURSIVE BlockLengths(_, _)
BlockLengths(results, j) ==
    IF j = 0 THEN 0 ELSE BlockLengths(results, j - 1) + Len(ChunkContext(results[j]))

\* C34: get_context_for_completion takes a prefix of the results in their order: the
\* results 1..j for the largest j whose block lengths sum to at most
\* max_context_length; it stops at the first block that does not fit, without trying
\* later, smaller blocks, and chunks_used = j
C34_ContextIsLongestPrefix ==
    (probe.fn = "get_context_for_completion" /\ probe.out # <<>>) =>
        LET j == probe.out[1].chunks_used
            n == Len(probe.results)
        IN /\ j \in 0..n
           /\ probe.out[1].context = Join([i \in 1..j |-> ChunkContext(probe.results[i])])
           /\ BlockLengths(probe.results, j) <= probe.max_context_length
           /\ \A k \in 0..n : BlockLengths(probe.results, k) <= probe.max_context_length => k <= j
           /\ probe.out[1].total_chunks_found = n

\* the first block is taken, the second does not fit, and the third, which would
\* fit, is not tried
C34_Witness ==
    /\ probe.fn = "get_context_for_completion"
    /\ probe.out # <<>>
    /\ probe.results = <<<<>>, <<"c", "c">>, <<>>>>
    /\ probe.max_context_length = 5
    /\ probe.out[1].chunks_used = 1
    /\ probe.out[1].context = ChunkContext(<<>>)

(***************************************************************************)
(* chunker.py: the while loop of chunk_text, one iteration per step        *)
(***************************************************************************)
\* the most iterations of the loop that are followed
MaxIterations == 6

\* FileChunker.__init__ and the --chunk-size / --chunk-overlap options check nothing:
\* every chunk_size >= 1 with every chunk_overlap >= 0
AcceptedConfigs == [chunk_size : 1..MaxChunkSize, chunk_overlap : 0..MaxChunkSize]

\* lines 75-79: the tokens are encoded (n of them), start = 0, chunk_id = 0
LoopInit ==
    /\ root = "/r1"
    /\ EmptyStores
    /\ probe \in [fn : {"chunk_text_loop"}, cfg : AcceptedConfigs, n : 0..MaxTokens,
                  start : {0}, chunk_id : {0}, returned : {FALSE}]

\* lines 81-112: the loop condition fails and chunk_text returns, or one iteration runs:
\* a chunk is appended, then break at the end of the stream or start = end - chunk_overlap
ChunkTextIteration ==
    /\ probe.fn = "chunk_text_loop"
    /\ ~probe.returned
    /\ probe.chunk_id < MaxIterations
    /\ IF ~(probe.start < probe.n)
       THEN probe' = [probe EXCEPT !.returned = TRUE]
       ELSE LET end == Min(probe.start + probe.cfg.chunk_size, probe.n)
            IN IF end >= probe.n
               THEN probe' = [probe EXCEPT !.chunk_id = @ + 1, !.returned = TRUE]
               ELSE probe' = [probe EXCEPT !.chunk_id = @ + 1,
                                           !.start = end - probe.cfg.chunk_overlap]
    /\ UNCHANGED <<tree, root, cacheVars, vec, mem, runVars, restartOf, faults>>

LoopSpec == LoopInit /\ [][ChunkTextIteration]_vars

\* C35: chunk_text terminates on every token stream for every configuration the
\* constructor and the command line accept, chunk_overlap >= chunk_size included: the
\* window start strictly increases on every iteration that does not leave the loop
C35_StartIncreases ==
    [][(ChunkTextIteration /\ ~probe'.returned) => probe'.start > probe.start]_vars

(***************************************************************************)
(* The tree is edited while a sync runs                                    *)
(***************************************************************************)
\* the content of a file is replaced while full_index or incremental_sync is between
\* two files of its loop: after the file was processed and before the Merkle map is
\* computed (full_index), or after the Merkle map was computed and before the file is
\* processed (incremental_sync)
WriteFileDuringSync(p, c) ==
    /\ op \in {"full", "inc"}
    /\ pc = "loop"
    /\ p \in DOMAIN tree
    /\ tree[p] # c
    /\ tree' = [tree EXCEPT ![p] = c]
    /\ restartOf' = "edited"
    /\ UNCHANGED <<probe, root, cacheVars, vec, mem, runVars, faults>>

\* the operations with a tree that is edited at any time
EditNext ==
    \/ Next
    \/ \E p \in Paths, c \in Contents : WriteFileDuringSync(p, c)

EditSpec == Init /\ [][EditNext]_vars

\* the file record and the chunk rows of the path are those of its content in the tree
IndexedAsInTree(p) ==
    /\ p \in DOMAIN files
    /\ files[p] = GetFileHash(tree[p])
    /\ FileChunks(p) = ChunkRowsOf(tree[p], p)

\* C36: the index converges to the tree: whatever was edited while an earlier
\* full_index or incremental_sync ran, an incremental_sync during which the tree does
\* not change leaves for every file with chunks the stored digest and the chunks of its
\* content
C36_ConvergesAfterEdits ==
    (op = "inc" /\ pc = "done" /\ error_count = 0 /\ restartOf # "edited") =>
        \A p \in DOMAIN tree : ChunkText(tree[p], p) # <<>> => IndexedAsInTree(p)

(***************************************************************************)
(* The returned stats                                                      *)
(***************************************************************************)
\* lines 238-242: the added or modified paths that still exist
FilesToProcess == (changes.added \cup changes.modified) \cap DOMAIN tree

\* the paths of the run for which process_file reached its writes (it returned True)
RecordsWritten == {p \in FilesToProcess : ChunkText(tree[p], p) # <<>>}

\* C37: the stats account for every file exactly once: full_index returns
\* processed_files + skipped_files + error_files = total_files, incremental_sync returns
\* processed_files + error_files = the number of added or modified paths that still
\* exist, and processed_files counts only the files whose records were written
C37_StatsAccountForEveryFile ==
    /\ (op = "full" /\ pc = "done") =>
           processed_count + skipped_count + error_count = Cardinality(DOMAIN tree)
    /\ (op = "inc" /\ pc = "done") =>
           /\ processed_count + error_count = Cardinality(FilesToProcess)
           /\ processed_count = Cardinality(RecordsWritten)

(***************************************************************************)
(* detect_changes and has_changes on the same pair of maps                 *)
(***************************************************************************)
\* has_changes that compares only the number of records of the two trees
HasChangesByCount(current_root_hash, new_file_hashes) ==
    Len(MerkleRoot(new_file_hashes)) # Len(current_root_hash)

\* FileChangeDetector.has_changes: the root of a tree built from new_file_hashes in
\* path-sorted order differs from the root the detector holds
HasChanges(current_root_hash, new_file_hashes) ==
    MerkleRoot(new_file_hashes) # current_root_hash

MerkleInit ==
    /\ root = "/r1"
    /\ EmptyStores
    /\ probe \in [fn : {"has_changes"}, file_hashes : HashMaps, new_file_hashes : HashMaps,
                   out : {<<>>}]

\* build_tree_from_files(file_hashes), then detect_changes(new_file_hashes) and
\* has_changes(new_file_hashes) on that detector
HasChangesCall ==
    /\ probe.fn = "has_changes"
    /\ probe.out = <<>>
    /\ LET current_root_hash == MerkleRoot(probe.file_hashes)
       IN probe' = [probe EXCEPT !.out =
              <<[changes |-> DetectChanges(probe.file_hashes, probe.new_file_hashes),
                 has_changes |-> HasChanges(current_root_hash, probe.new_file_hashes)]>>]
    /\ UNCHANGED <<tree, root, cacheVars, vec, mem, runVars, restartOf, faults>>

MerkleSpec == MerkleInit /\ [][HasChangesCall]_vars

RootPaths == {<<"/", "home", "proj">>, <<"/", "srv", "proj">>, <<"/", "tmp", "proj">>,
              <<"/", "home", ".cache">>}
RelativePaths == {<<"a.py">>, <<"src", "a.py">>, <<"build", "a.py">>, <<".hidden", "a.py">>,
                  <<"package-lock.json">>, <<"a.bin">>}

\* Path.suffix.lower() of the file names above
Suffix(name) ==
    CASE name = "a.py" -> ".py"
      [] name = "package-lock.json" -> ".json"
      [] OTHER -> ".bin"

\* part.startswith('.')
StartsWithDot(part) == part \in {".hidden", ".cache", ".git", ".venv"}

\* self.code_extensions, for the suffixes above
code_extensions == {".py", ".json", ".md", ".txt"}

\* the largest st_size that is included
SizeLimit == 1048576

\* FileChunker._is_gitignored, for patterns without wildcard: a pattern that ends with
\* '/' ("src/") is compared with every part, any other with the relative path and the name
IsGitignored(gitignore_patterns, relative_path) ==
    \E pattern \in gitignore_patterns :
        IF pattern = "src/"
        THEN \E i \in 1..Len(relative_path) : relative_path[i] = "src"
        ELSE relative_path = <<pattern>> \/ relative_path[Len(relative_path)] = pattern

\* FileChunker.should_include_file(root_path / relative_path)
ShouldIncludeFile(root_path, gitignore_patterns, relative_path, st_size) ==
    LET file_path == root_path \o relative_path
        name == file_path[Len(file_path)]
        skip_files == {"package-lock.json", "yarn.lock", "go.sum"}
        allowed_hidden == {".gitignore", ".env.example", ".editorconfig", ".nvmrc"}
        ignore_dirs == {"node_modules", "__pycache__", ".git", "build", "dist", ".venv", "tmp",
                        "temp"}
    IN IF Suffix(name) \notin code_extensions THEN FALSE
       ELSE IF name \in skip_files THEN FALSE
       ELSE IF (\E i \in 1..Len(file_path) : StartsWithDot(file_path[i])) /\ name \notin allowed_hidden
            THEN FALSE
       ELSE IF \E i \in 1..Len(file_path) : file_path[i] \in ignore_dirs THEN FALSE
       ELSE IF st_size > SizeLimit THEN FALSE
       ELSE ~IsGitignored(gitignore_patterns, relative_path)

\* the relative paths get_all_file_hashes keeps for the files of a tree under root_path
IncludedPaths(root_path, gitignore_patterns, sizes) ==
    {rel \in DOMAIN sizes : ShouldIncludeFile(root_path, gitignore_patterns, rel, sizes[rel])}

\* the same relative contents (files of a size at or above the limit, and a root
\* .gitignore of a directory pattern and a file pattern) under two root directories
WalkInit ==
    /\ root = "/r1"
    /\ EmptyStores
    /\ probe \in [fn : {"get_all_file_hashes"},
                   root_path : RootPaths,
                   other_root_path : RootPaths,
                   gitignore_patterns : SUBSET {"src/", "a.py"},
                   sizes : UNION {[S -> {SizeLimit, SizeLimit + 1}] : S \in SUBSET RelativePaths},
                   out : {<<>>}]

\* one walk under each of the two roots
WalkCall ==
    /\ probe.fn = "get_all_file_hashes"
    /\ probe.out = <<>>
    /\ probe' = [probe EXCEPT !.out =
           <<IncludedPaths(probe.root_path, probe.gitignore_patterns, probe.sizes),
             IncludedPaths(probe.other_root_path, probe.gitignore_patterns, probe.sizes)>>]
    /\ UNCHANGED <<tree, root, cacheVars, vec, mem, runVars, restartOf, faults>>

WalkSpec == WalkInit /\ [][WalkCall]_vars

\* C39: whether the walker includes a file depends only on its path relative to the
\* root, its name, its size and the root .gitignore: two trees with the same relative
\* contents under different root directories yield the same set of included relative
\* paths
C39_InclusionIndependentOfRoot ==
    (probe.fn = "get_all_file_hashes" /\ probe.out # <<>>) => probe.out[1] = probe.out[2]
====
